---- MODULE Spec2Model ----
(***************************************************************************)
(* Model of src/schedule.py: get_bq_client (the retry loop that builds the *)
(* BigQuery Data Transfer client) and create_or_update_scheduled_query     *)
(* (list, then update + manual run of the first configuration whose        *)
(* display name is the table, or create).  The Data Transfer service is    *)
(* the environment: a list of transfer configurations in the order the     *)
(* service lists them, and the manual runs it has started.  A service call *)
(* either succeeds and takes effect, or raises and has no effect.          *)
(* Several script invocations may run against the same service; each       *)
(* service call is one atomic step.                                        *)
(***************************************************************************)
EXTENDS Integers, Sequences, FiniteSets, TLC

\* ---------------------------------------------------------------- bounds
MaxInvocations == 3    \* invocations in a behaviour of SeqSpec
MaxOverlapping == 2    \* invocations in a behaviour of Spec
MaxAttempts == 2       \* passes through the retry loop in one invocation

\* ------------------------------------------------------- inputs, constants
Procs == {"p1", "p2"}
Tables == {"A", "B"}
Queries == {"SELECT 1", "SELECT 2"}

PROJECT_ID == "four-metrics"

NoConfig == [name |-> ""]
NoError == <<>>

\* str(e) of the exceptions the construction can raise, word by word
Needle == <<"BigQuery", "Data", "Transfer", "service", "account", "is", "not", "found">>
NotFoundMsg == <<"400">> \o Needle \o <<"for", "project">>
NearMissMsg == <<"service", "account", "is", "not", "found">>
NoSuchFileMsg == <<"No", "such", "file">>

\* `needle in s` : needle occurs as a contiguous run of s
Contains(s, needle) ==
    \E i \in 0..(Len(s) - Len(needle)) :
        \A j \in 1..Len(needle) : s[i + j] = needle[j]

RetryAfterNever(msg) == FALSE

RetryAfterAlways(msg) == TRUE

\* lines 54-57: retry stays True only for the service account error
RetryAfter(msg) == Contains(msg, Needle)

\* one pass through the try block (lines 42-52): either it completes, or one
\* of its three statements raises
AttemptOutcomes ==
    { [at |-> "none", msg |-> NoError],
      [at |-> "credentials", msg |-> NoSuchFileMsg],
      [at |-> "client", msg |-> NotFoundMsg],
      [at |-> "client", msg |-> NearMissMsg],
      [at |-> "project_path", msg |-> NotFoundMsg],
      [at |-> "project_path", msg |-> NoSuchFileMsg] }

project_path(project) == "projects/" \o project

\* the resource name the service assigns to its n-th configuration
ResourceName(n) == project_path(PROJECT_ID) \o "/transferConfigs/" \o ToString(n)

\* lines 74-87
BuildTransferConfig(tbl, qry) ==
    [ name |-> "",
      destination_dataset_id |-> "four_keys",
      display_name |-> tbl,
      data_source_id |-> "scheduled_query",
      params |-> [ query |-> qry,
                   destination_table_name_template |-> tbl,
                   write_disposition |-> "WRITE_TRUNCATE" ],
      schedule |-> "every 24 hours" ]

\* a configuration that was not made by this script: another cadence,
\* another source, another disposition
ForeignConfig(n, tbl) ==
    [ name |-> ResourceName(n),
      destination_dataset_id |-> "four_keys",
      display_name |-> tbl,
      data_source_id |-> "google_cloud_storage",
      params |-> [ query |-> "SELECT 0",
                   destination_table_name_template |-> tbl,
                   write_disposition |-> "WRITE_APPEND" ],
      schedule |-> "every 12 hours" ]

\* what the service may hold before the first invocation: nothing, or
\* configurations of others, two of them under the same display name
InitialRemotes ==
    { <<>>,
      << ForeignConfig(1, "B"), ForeignConfig(2, "A"), ForeignConfig(3, "A") >> }

MatchesAny(scheduled_query, tbl) == scheduled_query.destination_dataset_id = "four_keys"

\* line 91
Matches(scheduled_query, tbl) == scheduled_query.display_name = tbl

RECURSIVE ScanFrom(_, _, _)
ScanFrom(configs, tbl, i) ==
    IF i > Len(configs) THEN 0
    ELSE IF Matches(configs[i], tbl) THEN i
    ELSE ScanFrom(configs, tbl, i + 1)

RECURSIVE ScanBack(_, _, _)
ScanBack(configs, tbl, i) ==
    IF i < 1 THEN 0
    ELSE IF Matches(configs[i], tbl) THEN i
    ELSE ScanBack(configs, tbl, i - 1)

LastMatch(configs, tbl) == ScanBack(configs, tbl, Len(configs))

\* lines 90-91: the for loop stops at the first entry that matches
FirstMatch(configs, tbl) == ScanFrom(configs, tbl, 1)

AfterListAlwaysCreate(configs, tbl) == "create"

\* lines 90-108: update when the loop finds a match, create when it ends
AfterList(configs, tbl) ==
    IF FirstMatch(configs, tbl) = 0 THEN "create" ELSE "update"

update_mask_all == {"params", "schedule", "display_name", "data_source_id"}

update_mask_schedule == {"schedule"}

\* line 97
update_mask == {"params"}

AfterUpdateReturn == "done"

\* lines 99-104: the manual run follows the update
AfterUpdate == "run"

\* line 104: the run is requested for transfer_config.name
RunTarget(config) == config.name

AfterServiceErrorRetry == "list"

\* lines 90-109 have no try/except: a failing service call ends the invocation
AfterServiceError == "raised"

\* the service's update: the fields the mask names are taken from the request
Masked(old, new, mask) ==
    [ f \in DOMAIN old |-> IF f \in mask THEN new[f] ELSE old[f] ]

UpdateConfig(configs, request, mask) ==
    [ i \in 1..Len(configs) |->
        IF configs[i].name = request.name
        THEN Masked(configs[i], request, mask)
        ELSE configs[i] ]

NameIndex(configs, nm) ==
    IF \E i \in 1..Len(configs) : configs[i].name = nm
    THEN CHOOSE i \in 1..Len(configs) : configs[i].name = nm
    ELSE 0

ConfigNamed(configs, nm) ==
    IF NameIndex(configs, nm) = 0 THEN NoConfig ELSE configs[NameIndex(configs, nm)]

\* the fields an update is to leave as they were
Fixed(config) ==
    [ name |-> config.name, display_name |-> config.display_name,
      data_source_id |-> config.data_source_id, schedule |-> config.schedule ]

CountFor(configs, tbl) ==
    Cardinality({ i \in 1..Len(configs) : configs[i].display_name = tbl })

\* ------------------------------------------------------------------ state
VARIABLES
    remote,           \* the service's configurations, in list order
    initial,          \* the configurations there were before the first start
    created,          \* Fixed() of each configuration when it came to exist
    runs,             \* manual runs the service has started: [name, by]
    started,          \* number of invocations started so far
    pc,               \* per process: position in the script
    inv,              \* per process: serial number of its invocation
    table, query,     \* per process: FLAGS.table, contents of FLAGS.query_file
    attempts,         \* per process: passes through the try block
    lastErr,          \* per process: str(e) of the last pass, NoError if none
    client, parent,   \* per process: the pass that bound the local, 0 = unbound
    transfer_config,  \* per process: the request object
    listing,          \* per process: what list_transfer_configs returned
    calls,            \* per process: service calls issued, in order
    nBefore,          \* per process: configurations named table at start
    hist              \* finished invocations, in order of termination

vars == << remote, initial, created, runs, started, pc, inv, table, query, attempts,
           lastErr, client, parent, transfer_config, listing, calls, nBefore,
           hist >>

svc == << remote, initial, created, runs >>
locals == << inv, table, query, attempts, lastErr, client, parent,
             transfer_config, listing, calls, nBefore >>

Init ==
    /\ remote \in InitialRemotes
    /\ initial = remote
    /\ created = [i \in 1..Len(remote) |-> Fixed(remote[i])]
    /\ runs = {}
    /\ started = 0
    /\ pc = [p \in Procs |-> "idle"]
    /\ inv = [p \in Procs |-> 0]
    /\ table = [p \in Procs |-> ""]
    /\ query = [p \in Procs |-> ""]
    /\ attempts = [p \in Procs |-> 0]
    /\ lastErr = [p \in Procs |-> NoError]
    /\ client = [p \in Procs |-> 0]
    /\ parent = [p \in Procs |-> 0]
    /\ transfer_config = [p \in Procs |-> NoConfig]
    /\ listing = [p \in Procs |-> <<>>]
    /\ calls = [p \in Procs |-> <<>>]
    /\ nBefore = [p \in Procs |-> 0]
    /\ hist = <<>>

\* --------------------------------------------------------------- actions
Call(op, nm, mask, ok) == [op |-> op, name |-> nm, mask |-> mask, ok |-> ok]

Reset(p) ==
    /\ pc' = [pc EXCEPT ![p] = "idle"]
    /\ inv' = [inv EXCEPT ![p] = 0]
    /\ table' = [table EXCEPT ![p] = ""]
    /\ query' = [query EXCEPT ![p] = ""]
    /\ attempts' = [attempts EXCEPT ![p] = 0]
    /\ lastErr' = [lastErr EXCEPT ![p] = NoError]
    /\ client' = [client EXCEPT ![p] = 0]
    /\ parent' = [parent EXCEPT ![p] = 0]
    /\ transfer_config' = [transfer_config EXCEPT ![p] = NoConfig]
    /\ listing' = [listing EXCEPT ![p] = <<>>]
    /\ calls' = [calls EXCEPT ![p] = <<>>]
    /\ nBefore' = [nBefore EXCEPT ![p] = 0]

\* the record of the finished invocations holds the last two
Keep(h, e) == IF Len(h) < 2 THEN Append(h, e) ELSE << h[2], e >>

\* the invocation of p ends: with a message (kind Created or Updated, nm the
\* response's name) or with an exception (kind Error).  req is the request
\* object as it is then; cfg is the service's configuration of that name
Terminate(p, kind, nm, err, req, log, configs, started_runs) ==
    /\ hist' = Keep(hist,
            [ id |-> inv[p], table |-> table[p], query |-> query[p],
              kind |-> kind, name |-> nm, error |-> err,
              request |-> req, listing |-> listing[p],
              calls |-> log,
              nBefore |-> nBefore[p], nAfter |-> CountFor(configs, table[p]),
              cfg |-> ConfigNamed(configs, IF nm # "" THEN nm ELSE req.name),
              runs |-> Cardinality({ r \in started_runs : r.by = inv[p] }) ])
    /\ Reset(p)

\* a service call of p raised
Fail(p, req, call) ==
    IF AfterServiceError = "raised"
    THEN Terminate(p, "Error", "", "ServiceError", req, Append(calls[p], call),
                   remote, runs)
    ELSE /\ pc' = [pc EXCEPT ![p] = AfterServiceError]
         /\ calls' = [calls EXCEPT ![p] = Append(@, call)]
         /\ transfer_config' = [transfer_config EXCEPT ![p] = req]
         /\ UNCHANGED << hist, inv, table, query, attempts, lastErr, client,
                         parent, listing, nBefore >>

\* the script is started; line 37
Start(p) ==
    /\ pc[p] = "idle"
    /\ started' = started + 1
    /\ inv' = [inv EXCEPT ![p] = started + 1]
    /\ pc' = [pc EXCEPT ![p] = "try"]
    /\ UNCHANGED << svc, table, query, nBefore, attempts, lastErr, client,
                    parent, transfer_config, listing, calls, hist >>

\* lines 38-57: one pass through the loop body
Attempt(p) ==
    /\ pc[p] = "try"
    /\ \E o \in AttemptOutcomes :
        \* the service account error is gone by pass MaxAttempts
        /\ Contains(o.msg, Needle) => attempts[p] + 1 < MaxAttempts
        /\ attempts' = [attempts EXCEPT ![p] = @ + 1]
        /\ lastErr' = [lastErr EXCEPT ![p] = o.msg]
        /\ client' = [client EXCEPT ![p] =
                        IF o.at \in {"none", "project_path"} THEN attempts[p] + 1 ELSE @]
        /\ parent' = [parent EXCEPT ![p] =
                        IF o.at = "none" THEN attempts[p] + 1 ELSE @]
        /\ pc' = [pc EXCEPT ![p] =
                        IF o.at = "none" THEN "ret"
                        ELSE IF RetryAfter(o.msg) THEN "try" ELSE "ret"]
    /\ UNCHANGED << svc, started, inv, table, query, transfer_config, listing,
                    calls, nBefore, hist >>

\* line 59: return client, parent; reading an unbound local raises.
\* lines 64-87: with the client in hand, read the flags and the query file
\* and build the request
GetClientReturn(p) ==
    /\ pc[p] = "ret"
    /\ IF client[p] # 0 /\ parent[p] # 0
       THEN /\ \E t \in Tables, q \in Queries :
                /\ table' = [table EXCEPT ![p] = t]
                /\ query' = [query EXCEPT ![p] = q]
                /\ nBefore' = [nBefore EXCEPT ![p] = CountFor(remote, t)]
                /\ transfer_config' = [transfer_config EXCEPT ![p] =
                                          BuildTransferConfig(t, q)]
            /\ pc' = [pc EXCEPT ![p] = "list"]
            /\ UNCHANGED << hist, inv, attempts, lastErr, client, parent,
                            listing, calls >>
       ELSE Terminate(p, "Error", "", "UnboundLocalError", transfer_config[p],
                      calls[p], remote, runs)
    /\ UNCHANGED << svc, started >>

\* line 90: client.list_transfer_configs(parent)
List(p) ==
    /\ pc[p] = "list"
    /\ \/ /\ listing' = [listing EXCEPT ![p] = remote]
          /\ calls' = [calls EXCEPT ![p] = Append(@, Call("list", "", {}, TRUE))]
          /\ pc' = [pc EXCEPT ![p] = AfterList(remote, table[p])]
          /\ UNCHANGED << hist, inv, table, query, attempts, lastErr, client,
                          parent, transfer_config, nBefore >>
       \/ Fail(p, transfer_config[p], Call("list", "", {}, FALSE))
    /\ UNCHANGED << svc, started >>

\* lines 94-99: name the request after the match, update under the mask
Update(p) ==
    /\ pc[p] = "update"
    /\ LET sq == listing[p][FirstMatch(listing[p], table[p])]
           request == [transfer_config[p] EXCEPT !.name = sq.name]
       IN \/ /\ remote' = UpdateConfig(remote, request, update_mask)
             /\ IF AfterUpdate = "run"
                THEN /\ transfer_config' = [transfer_config EXCEPT ![p] = request]
                     /\ calls' = [calls EXCEPT ![p] =
                                    Append(@, Call("update", request.name, update_mask, TRUE))]
                     /\ pc' = [pc EXCEPT ![p] = "run"]
                     /\ UNCHANGED << hist, inv, table, query, attempts, lastErr,
                                     client, parent, listing, nBefore >>
                ELSE Terminate(p, "Updated", request.name, "", request,
                        Append(calls[p], Call("update", request.name, update_mask, TRUE)),
                        UpdateConfig(remote, request, update_mask), runs)
             /\ UNCHANGED << initial, created, runs >>
          \/ /\ Fail(p, request, Call("update", request.name, update_mask, FALSE))
             /\ UNCHANGED svc
    /\ UNCHANGED started

\* lines 102-105: start a manual run, return the Updated message
ManualRun(p) ==
    /\ pc[p] = "run"
    /\ LET target == RunTarget(transfer_config[p])
       IN \/ /\ runs' = runs \cup {[name |-> target, by |-> inv[p]]}
             /\ UNCHANGED << remote, initial, created >>
             /\ Terminate(p, "Updated", transfer_config[p].name, "", transfer_config[p],
                    Append(calls[p], Call("run", target, {}, TRUE)), remote,
                    runs \cup {[name |-> target, by |-> inv[p]]})
          \/ /\ Fail(p, transfer_config[p], Call("run", target, {}, FALSE))
             /\ UNCHANGED svc
    /\ UNCHANGED started

\* lines 108-109: create, return the Created message
Create(p) ==
    /\ pc[p] = "create"
    /\ LET nm == ResourceName(Len(remote) + 1)
           made == [transfer_config[p] EXCEPT !.name = nm]
       IN \/ /\ remote' = Append(remote, made)
             /\ created' = Append(created, Fixed(made))
             /\ UNCHANGED << initial, runs >>
             /\ Terminate(p, "Created", nm, "", transfer_config[p],
                    Append(calls[p], Call("create", "", {}, TRUE)),
                    Append(remote, made), runs)
          \/ /\ Fail(p, transfer_config[p], Call("create", "", {}, FALSE))
             /\ UNCHANGED svc
    /\ UNCHANGED started

Step(p) ==
    \/ Attempt(p)
    \/ GetClientReturn(p)
    \/ List(p)
    \/ Update(p)
    \/ ManualRun(p)
    \/ Create(p)

\* invocations overlap: any process may start while another runs
AnyStart(p) == started < MaxOverlapping /\ Start(p)

Next == \E p \in Procs : AnyStart(p) \/ Step(p)

Spec == Init /\ [][Next]_vars

\* one invocation at a time: the script is started only when no other runs
Quiet == \A q \in Procs : pc[q] = "idle"

SeqStart(p) == started < MaxInvocations /\ Quiet /\ Start(p)

SeqNext == \E p \in Procs : SeqStart(p) \/ Step(p)

SeqSpec == Init /\ [][SeqNext]_vars

\* ------------------------------------------------------------ properties
Ok(h) == h.kind \in {"Created", "Updated"}

Ops(log) == [k \in 1..Len(log) |-> log[k].op]

AllOk(log) == \A k \in 1..Len(log) : log[k].ok

\* the two recorded invocations ran one right after the other, for one table
Successive == Len(hist) = 2 /\ hist[2].id = hist[1].id + 1
              /\ hist[2].table = hist[1].table

\* the first entry of a list whose display name is tbl, by its definition
IsFirstFor(configs, tbl, i) ==
    /\ i \in 1..Len(configs)
    /\ configs[i].display_name = tbl
    /\ \A j \in 1..(i - 1) : configs[j].display_name # tbl

\* C1: two successful invocations in succession with the same table and
\* query, the first started with no configuration of that display name: the
\* first creates, the second updates that same configuration and creates
\* nothing, and exactly one configuration has the display name afterwards.
C1_IdempotentUpsert ==
    ( /\ Successive
      /\ Ok(hist[1]) /\ Ok(hist[2])
      /\ hist[2].query = hist[1].query
      /\ hist[1].nBefore = 0 )
    => /\ hist[1].kind = "Created"
       /\ Ops(hist[1].calls) = << "list", "create" >>
       /\ hist[2].kind = "Updated"
       /\ Ops(hist[2].calls) = << "list", "update", "run" >>
       /\ hist[2].name = hist[1].name
       /\ hist[1].nAfter = 1
       /\ hist[2].nAfter = 1
       /\ CountFor(remote, hist[2].table) = 1

C1_Witness ==
    /\ Successive /\ Ok(hist[1]) /\ Ok(hist[2])
    /\ hist[2].query = hist[1].query
    /\ hist[1].nBefore = 0
    /\ hist[2].kind = "Updated"

\* C6: a table with no configuration is reconciled (Created n) and then
\* reconciled again with another query text: the second result is Updated n,
\* configuration n holds the new query with the table as destination template
\* and WRITE_TRUNCATE, and its schedule is the one it was created with.
C6_CreateThenUpdate ==
    ( /\ Successive
      /\ hist[1].kind = "Created" /\ hist[1].nBefore = 0
      /\ Ok(hist[2])
      /\ hist[2].query # hist[1].query )
    => /\ hist[2].kind = "Updated"
       /\ hist[2].name = hist[1].name
       /\ hist[2].cfg.name = hist[1].name
       /\ hist[2].cfg.params =
            [ query |-> hist[2].query,
              destination_table_name_template |-> hist[2].table,
              write_disposition |-> "WRITE_TRUNCATE" ]
       /\ hist[2].cfg.schedule = hist[1].cfg.schedule
       /\ hist[2].cfg.schedule = "every 24 hours"

C6_Witness ==
    /\ Successive
    /\ hist[1].kind = "Created" /\ hist[1].nBefore = 0
    /\ hist[2].kind = "Updated"
    /\ hist[2].query # hist[1].query
    /\ hist[1].cfg.params.query = hist[1].query
    /\ hist[2].cfg.params.query = hist[2].query

\* the resource names of the service are pairwise distinct
DistinctNames ==
    \A i, j \in 1..Len(remote) : remote[i].name = remote[j].name => i = j

\* every update and manual run in a log names a configuration of table tbl
TargetsOwn(log, tbl) ==
    \A k \in 1..Len(log) :
        log[k].op \in {"update", "run"}
            => ConfigNamed(remote, log[k].name).display_name = tbl

\* C2: configurations made for distinct tables are distinct resources, no
\* invocation sends an update or a manual run to a configuration whose
\* display name is not its table, and a step of an invocation leaves every
\* field of every configuration under another display name as it was.
C2_State ==
    /\ DistinctNames
    /\ \A p \in Procs : TargetsOwn(calls[p], table[p])
    /\ \A k \in 1..Len(hist) :
        /\ TargetsOwn(hist[k].calls, hist[k].table)
        /\ Ok(hist[k]) => hist[k].cfg.display_name = hist[k].table

C2_Frame ==
    /\ Len(remote') >= Len(remote)
    /\ \A i \in 1..Len(remote) :
        remote'[i] # remote[i]
            => \E p \in Procs : /\ pc[p] = "update"
                                /\ pc'[p] # pc[p]
                                /\ table[p] = remote[i].display_name

C2_IdentityByName == []C2_State /\ [][C2_Frame]_vars

\* A and B were both created by the script, then A was reconciled again
C2_Witness ==
    /\ initial = <<>>
    /\ Len(remote) = 2
    /\ remote[1].display_name # remote[2].display_name
    /\ Len(hist) = 2
    /\ hist[1].kind = "Created" /\ hist[1].name = remote[2].name
    /\ hist[2].kind = "Updated" /\ hist[2].name = remote[1].name
    /\ hist[2].query # hist[1].query

\* C3: every update request carries the field mask {params}, and every
\* configuration has the schedule, display name and data source it had when
\* it came to exist, whatever the requests carried for them.
C3_FieldMask ==
    /\ \A p \in Procs : \A k \in 1..Len(calls[p]) :
        calls[p][k].op = "update" => calls[p][k].mask = {"params"}
    /\ \A h \in 1..Len(hist) : \A k \in 1..Len(hist[h].calls) :
        hist[h].calls[k].op = "update" => hist[h].calls[k].mask = {"params"}
    /\ Len(created) = Len(remote)
    /\ \A i \in 1..Len(remote) : Fixed(remote[i]) = created[i]

\* a configuration was updated by two invocations whose requests carried
\* another schedule and another data source than it has
C3_Witness ==
    /\ Len(hist) = 2
    /\ hist[1].kind = "Updated" /\ hist[2].kind = "Updated"
    /\ hist[2].name = hist[1].name
    /\ hist[2].request.schedule # hist[2].cfg.schedule
    /\ hist[2].request.data_source_id # hist[2].cfg.data_source_id
    /\ hist[2].cfg.params = hist[2].request.params

\* C4: an invocation that returned Updated issued list, one update, one
\* manual run, in this order, the update and the run for the resource it
\* names, and no create; one that returned Created issued list and one
\* create; no invocation, finished or running, issued a create and an update.
Profile(h) ==
    /\ h.kind = "Updated" =>
        /\ Ops(h.calls) = << "list", "update", "run" >>
        /\ AllOk(h.calls)
        /\ h.calls[2].name = h.name
        /\ h.calls[3].name = h.name
        /\ h.runs = 1
    /\ h.kind = "Created" =>
        /\ Ops(h.calls) = << "list", "create" >>
        /\ AllOk(h.calls)
        /\ h.runs = 0

NotBoth(log) ==
    ~ ( (\E k \in 1..Len(log) : log[k].op = "create")
        /\ (\E k \in 1..Len(log) : log[k].op = "update") )

C4_CallProfile ==
    /\ \A k \in 1..Len(hist) : Profile(hist[k]) /\ NotBoth(hist[k].calls)
    /\ \A p \in Procs : NotBoth(calls[p])
    /\ \A r \in runs : \E i \in 1..Len(remote) : remote[i].name = r.name

C4_Witness ==
    /\ Len(hist) = 2
    /\ hist[1].kind = "Created"
    /\ hist[2].kind = "Updated"
    /\ \E r \in runs : r.by = hist[2].id /\ r.name = hist[2].name

\* C5: an invocation that returned Updated names the first entry of its
\* list whose display name is the table, its update and manual run went to
\* that entry, and a step changes no configuration but the first such entry
\* of the list of the invocation that takes it.
C5_State ==
    \A k \in 1..Len(hist) :
        hist[k].kind = "Updated" =>
            \E i \in 1..Len(hist[k].listing) :
                /\ IsFirstFor(hist[k].listing, hist[k].table, i)
                /\ hist[k].name = hist[k].listing[i].name
                /\ \A c \in 1..Len(hist[k].calls) :
                    hist[k].calls[c].op \in {"update", "run"}
                        => hist[k].calls[c].name = hist[k].listing[i].name

C5_Frame ==
    \A i \in 1..Len(remote) :
        remote'[i] # remote[i]
            => \E p \in Procs : \E j \in 1..Len(listing[p]) :
                /\ pc[p] = "update"
                /\ IsFirstFor(listing[p], table[p], j)
                /\ listing[p][j].name = remote[i].name

C5_FirstMatch == []C5_State /\ [][C5_Frame]_vars

\* the list had two entries for the table: the first holds the new query,
\* the second is as it was
C5_Witness ==
    /\ Len(hist) >= 1
    /\ hist[1].kind = "Updated"
    /\ Cardinality({ i \in 1..Len(hist[1].listing) :
                        hist[1].listing[i].display_name = hist[1].table }) = 2
    /\ Len(remote) = 3
    /\ remote[2].name = hist[1].name
    /\ remote[2].params.query = hist[1].query
    /\ remote[3] = initial[3]
    /\ remote[3].display_name = hist[1].table

\* the error message of the pass that p has just made
Transient(msg) == msg # NoError /\ Contains(msg, Needle)
Fatal(msg) == msg # NoError /\ ~ Contains(msg, Needle)

\* p makes a pass through the loop body
Pass(p) == pc[p] = "try" /\ attempts'[p] = attempts[p] + 1

\* p takes a step from the return statement of get_bq_client
Leaves(p) == pc[p] = "ret" /\ pc'[p] # "ret"

LastOf(h) == h[Len(h)]

\* C7 as stated: after a pass that failed with another error than the
\* service account error the loop is left without a further pass, and
\* get_bq_client comes back to its caller without an exception.
C7_SilentFailure ==
    [][ \A p \in Procs :
          /\ (Pass(p) /\ Fatal(lastErr'[p])) => pc'[p] = "ret"
          /\ (Leaves(p) /\ Fatal(lastErr[p]))
                => /\ attempts'[p] = attempts[p]
                   /\ pc'[p] = "list" ]_vars

\* C7 as amended: after such a pass the loop is left without a further
\* pass and the error of the construction is not reported, but the return
\* statement reads a local that was never bound: the invocation ends with an
\* UnboundLocalError, before any service call.
C7_UnboundLocalError ==
    [][ \A p \in Procs :
          /\ (Pass(p) /\ Fatal(lastErr'[p])) => pc'[p] = "ret"
          /\ (Leaves(p) /\ Fatal(lastErr[p]))
                => /\ parent[p] = 0
                   /\ pc'[p] = "idle"
                   /\ hist' # <<>>
                   /\ LastOf(hist').id = inv[p]
                   /\ LastOf(hist').kind = "Error"
                   /\ LastOf(hist').error = "UnboundLocalError"
                   /\ LastOf(hist').calls = <<>>
                   /\ svc' = svc ]_vars

C7_Witness ==
    /\ hist # <<>>
    /\ LastOf(hist).error = "UnboundLocalError"
    /\ LastOf(hist).calls = <<>>

\* C8: a pass that fails with the service account error is followed by
\* another pass, however many there were; the loop is left only after a
\* pass that did not fail so; once a pass succeeds get_bq_client returns the
\* client and the parent path of that pass, and no further pass is made.
C8_State ==
    \A p \in Procs :
        /\ pc[p] = "try" /\ attempts[p] > 0 => Transient(lastErr[p])
        /\ pc[p] = "ret" => ~ Transient(lastErr[p])
        /\ pc[p] \in {"list", "update", "run", "create"} =>
            /\ lastErr[p] = NoError
            /\ client[p] = attempts[p]
            /\ parent[p] = attempts[p]

C8_Step ==
    \A p \in Procs :
        /\ (Pass(p) /\ Transient(lastErr'[p])) => pc'[p] = "try"
        /\ (Pass(p) /\ lastErr'[p] = NoError) =>
            pc'[p] = "ret" /\ client'[p] = attempts'[p] /\ parent'[p] = attempts'[p]
        /\ (Leaves(p) /\ lastErr[p] = NoError) =>
            pc'[p] = "list" /\ attempts'[p] = attempts[p]
        /\ pc[p] \in {"ret", "list", "update", "run", "create"} =>
            attempts'[p] = attempts[p] \/ pc'[p] = "idle"

C8_RetryLoop == []C8_State /\ [][C8_Step]_vars

\* get_bq_client has returned after a pass that followed a failed one
C8_Witness ==
    \E p \in Procs :
        /\ pc[p] = "list"
        /\ attempts[p] >= 2
        /\ client[p] = attempts[p]

\* C9: no running invocation has a failed service call behind it; an
\* invocation ended by a failing service call has no result, the failing
\* call is its last, and what the service holds is what the calls before it
\* left: after a failing manual run the configuration has the params of the
\* request and no run of this invocation was started, after a failing update
\* the configuration is as it was listed, after a failing create there is no
\* more configuration for the table than before.
Failed(h) == h.kind = "Error" /\ h.error = "ServiceError"

C9_NoRetryNoCleanup ==
    /\ \A p \in Procs : AllOk(calls[p])
    /\ \A k \in 1..Len(hist) :
        LET h == hist[k]
            n == Len(h.calls)
        IN Failed(h) =>
            /\ h.name = ""
            /\ n >= 1
            /\ ~ h.calls[n].ok
            /\ AllOk(SubSeq(h.calls, 1, n - 1))
            /\ Ops(h.calls) \in { << "list" >>, << "list", "create" >>,
                                  << "list", "update" >>,
                                  << "list", "update", "run" >> }
            /\ h.runs = 0
            /\ \A r \in runs : r.by # h.id
            /\ h.calls[n].op = "run" =>
                /\ h.cfg.name = h.calls[2].name
                /\ h.cfg.params = h.request.params
                /\ h.cfg.params.query = h.query
            /\ h.calls[n].op = "update" =>
                \E i \in 1..Len(h.listing) :
                    IsFirstFor(h.listing, h.table, i) /\ h.cfg = h.listing[i]
            /\ h.calls[n].op \in {"list", "create"} => h.nAfter = h.nBefore

\* the update of a foreign configuration went through, the manual run failed
C9_Witness ==
    /\ hist # <<>>
    /\ Failed(LastOf(hist))
    /\ Ops(LastOf(hist).calls) = << "list", "update", "run" >>
    /\ LastOf(hist).cfg.params.query = LastOf(hist).query
    /\ LastOf(hist).cfg.params.write_disposition = "WRITE_TRUNCATE"
    /\ runs = {}

\* C10 as stated: when no invocation is running and the last to finish
\* returned Created or Updated for a table that had no configuration before
\* the first start, exactly one configuration has that display name.
C10_ExactlyOne ==
    ( /\ Quiet
      /\ hist # <<>>
      /\ Ok(LastOf(hist))
      /\ CountFor(initial, LastOf(hist).table) = 0 )
    => CountFor(remote, LastOf(hist).table) = 1

====
